---- MODULE Spec2Model ----
(***************************************************************************)
(* A model of luminal's ShapeTracker / Indexer                             *)
(* (src/core/shape/simple_tracker.rs) and of the CPU graph optimizers      *)
(* (src/optimizers/cpu.rs).                                                *)
(*                                                                         *)
(* Conventions.  Rust vectors are 0-based, TLA+ sequences 1-based: the     *)
(* VALUES kept in `indexes` and every axis argument are the 0-based        *)
(* numbers of the code, and element i of a vector v is v[i + 1].           *)
(*                                                                         *)
(* usize arithmetic.  A usize value x is written as the integer x when     *)
(* x < 2^31 and as x - 2^64 (a negative integer) when a wrapping           *)
(* subtraction made it "huge"; magnitudes stay far below 2^31, so sums,    *)
(* differences and products of these representatives are the               *)
(* representatives of the wrapping results.  `build` is the build          *)
(* profile: with overflow checks ("debug") an underflowing subtraction     *)
(* panics, without them ("release") it wraps.  Division and remainder by   *)
(* zero panic in both.                                                     *)
(***************************************************************************)
EXTENDS Integers, Sequences, FiniteSets, TLC

\* the tracker under construction (st, err), the build profile, the number of
\* calls made; the graph an optimizer pass works on (graph), the graph the
\* pass started from (g0), the running pass (pc) and the node ids of its
\* snapshot that are still to be visited (queue); the second tracker of
\* resolve_local_dyn_dims (st2, the first is st) and the arguments of the
\* resolve_local_dyn_dims call that was made (call)
VARIABLES st, err, build, steps, graph, g0, pc, queue, st2, call

tvars == <<st, err, build, steps, st2, call>>
gvars == <<graph, g0, pc, queue>>
vars == <<st, err, build, steps, graph, g0, pc, queue, st2, call>>

(* ------------------------------ bounds -------------------------------- *)
MaxRank == 2
MaxSteps == 2
MaxDim == 2
MaxPad == 1
MaxIdx == 8
\* graphs: nodes of a unary-fusion input graph, consumers of a SumReduce
MaxNodes == 4
MaxConsumers == 2
\* rank of the trackers that permute, strides and is_contiguous are studied on
MaxPermRank == 3

(* ------------------------- program constants -------------------------- *)
\* i32::MAX as usize, the "unset upper bound" sentinel of slices
IMAX == 2147483647
\* capacity of the ArrayVec fields of ShapeTracker
Capacity == 10

Builds == {"debug", "release"}

(* -------------------------------- Dim --------------------------------- *)
Known(n) == [known |-> TRUE, n |-> n, c |-> ""]
Unknown(ch) == [known |-> FALSE, n |-> 0, c |-> ch]
DefaultDim == Unknown("-")

(* --------------------------- vector helpers --------------------------- *)
Min(a, b) == IF a <= b THEN a ELSE b
\* usize::saturating_sub
SatSub(a, b) == IF a >= b THEN a - b ELSE 0
\* ArrayVec::insert(i, x), i 0-based
InsertAt(s, i, x) == SubSeq(s, 1, i) \o <<x>> \o SubSeq(s, i + 1, Len(s))
\* ArrayVec::remove(i), i 0-based
RemoveAt(s, i) == SubSeq(s, 1, i) \o SubSeq(s, i + 2, Len(s))
Reverse(s) == [i \in 1..Len(s) |-> s[Len(s) + 1 - i]]

RECURSIVE SeqsUpTo(_, _)
SeqsUpTo(S, n) ==
    IF n = 0 THEN {<<>>}
    ELSE LET shorter == SeqsUpTo(S, n - 1)
         IN shorter \cup {Append(s, x) : s \in {q \in shorter : Len(q) = n - 1}, x \in S}
SeqsOfLen(S, n) == {s \in SeqsUpTo(S, n) : Len(s) = n}
\* the permutations of 0..n-1, as axis lists
Perms(n) == {p \in SeqsOfLen(0..(n - 1), n) : \A i, j \in 1..n : i # j => p[i] # p[j]}

(* ---------------------------- ShapeTracker ---------------------------- *)
New(ds) ==
    [dims |-> ds,
     indexes |-> [i \in 1..Len(ds) |-> i - 1],
     fake |-> [i \in 1..Len(ds) |-> FALSE],
     slices |-> [i \in 1..Len(ds) |-> <<0, IMAX>>],
     padding |-> [i \in 1..Len(ds) |-> <<0, 0>>]]

FakeNew(ds) == [New(ds) EXCEPT !.fake = [i \in 1..Len(ds) |-> TRUE]]

Expand(t, axis, dim) ==
    [dims |-> Append(t.dims, dim),
     indexes |-> InsertAt(t.indexes, axis, Len(t.dims)),
     fake |-> Append(t.fake, TRUE),
     slices |-> Append(t.slices, <<0, IMAX>>),
     padding |-> Append(t.padding, <<0, 0>>)]

\* (remove_dim without the renumbering of the later storage slots)
RemoveDimNoRenumber(t, axis) ==
    [dims |-> RemoveAt(t.dims, t.indexes[axis + 1]),
     indexes |-> RemoveAt(t.indexes, axis),
     fake |-> RemoveAt(t.fake, t.indexes[axis + 1]),
     slices |-> t.slices,
     padding |-> t.padding]

RemoveDim(t, axis) ==
    LET index == t.indexes[axis + 1]
        rest == RemoveAt(t.indexes, axis)
    IN [dims |-> RemoveAt(t.dims, index),
        indexes |-> [i \in 1..Len(rest) |-> IF rest[i] > index THEN rest[i] - 1 ELSE rest[i]],
        fake |-> RemoveAt(t.fake, index),
        slices |-> t.slices,
        padding |-> t.padding]

\* (the axes taken as the new indexes, whatever the old ones were)
PermuteFromIdentity(t, axes) == [t EXCEPT !.indexes = axes]

Permute(t, axes) ==
    [t EXCEPT !.indexes = [i \in 1..Len(axes) |-> t.indexes[axes[i] + 1]]]

\* one iteration of the loop of slice(): logical axis i (0-based), bounds <<s, e>>
SliceAxis(t, i, b) ==
    LET k == t.indexes[i + 1] + 1
        p0 == t.padding[k][1]
        s == IF p0 # 0 THEN SatSub(b[1], p0) ELSE b[1]
        newp0 == IF p0 # 0 THEN SatSub(p0, b[1]) ELSE p0
    IN [t EXCEPT !.padding[k] = <<newp0, t.padding[k][2]>>,
                 !.slices[k] = <<t.slices[k][1] + s, Min(t.slices[k][2], b[2])>>]

RECURSIVE SliceFrom(_, _, _)
SliceFrom(t, bs, i) ==
    IF i >= Len(bs) THEN t ELSE SliceFrom(SliceAxis(t, i, bs[i + 1]), bs, i + 1)
Slice(t, bs) == SliceFrom(t, bs, 0)

\* one iteration of the loop of pad(): padding.0 is added before the check
PadPanics(t, i, b) == b[2] # 0 /\ t.slices[t.indexes[i + 1] + 1][2] # IMAX
PadAxis(t, i, b, panics) ==
    LET k == t.indexes[i + 1] + 1
    IN [t EXCEPT !.padding[k] =
            <<t.padding[k][1] + b[1], t.padding[k][2] + (IF panics THEN 0 ELSE b[2])>>]

\* pad(): [ok, t]; on a panic t is the tracker as the unwinding leaves it
RECURSIVE PadFrom(_, _, _)
PadFrom(t, bs, i) ==
    IF i >= Len(bs) THEN [ok |-> TRUE, t |-> t]
    ELSE IF PadPanics(t, i, bs[i + 1])
         THEN [ok |-> FALSE, t |-> PadAxis(t, i, bs[i + 1], TRUE)]
         ELSE PadFrom(PadAxis(t, i, bs[i + 1], FALSE), bs, i + 1)
Pad(t, bs) == PadFrom(t, bs, 0)

RECURSIVE RealizeFrom(_, _, _)
RealizeFrom(t, ds, i) ==
    IF i >= Len(t.indexes) THEN t
    ELSE RealizeFrom([t EXCEPT !.dims[t.indexes[i + 1] + 1] = ds[i + 1]], ds, i + 1)
Realize(t, ds) == RealizeFrom(t, ds, 0)

Rank(t) == Len(t.indexes)
\* shape(): the dims in logical order
Shape(t) == [i \in 1..Len(t.indexes) |-> t.dims[t.indexes[i] + 1]]
\* is_contiguous(): no axis is out of storage order
IsContiguous(t) == \A a \in 0..(Len(t.indexes) - 1) : a = t.indexes[a + 1]

\* matches!(d, Dim::Unknown('-'))
IsDefaultDim(d) == ~d.known /\ d.c = "-"
\* one iteration of a loop of resolve_local_dyn_dims: logical position i of x
\* is filled from y
FillOne(x, y, i, default_to_one) ==
    LET k == x.indexes[i + 1] + 1
        d == y.dims[y.indexes[i + 1] + 1]
    IN IF ~IsDefaultDim(x.dims[k]) THEN x
       ELSE [x EXCEPT !.dims[k] = IF IsDefaultDim(d) /\ default_to_one THEN Known(1) ELSE d]
RECURSIVE FillFrom(_, _, _, _, _)
\* for i in 0..n
FillFrom(x, y, i, n, default_to_one) ==
    IF i >= n THEN x
    ELSE FillFrom(FillOne(x, y, i, default_to_one), y, i + 1, n, default_to_one)
\* (the first loop alone)
ResolveOnlyBToA(a, b, default_to_one) ==
    [a |-> FillFrom(a, b, 0, Len(a.dims), default_to_one), b |-> b]
\* resolve_local_dyn_dims(a, b, default_to_one): "B to A", then "A to B"
ResolveLocalDynDims(a, b, default_to_one) ==
    LET a1 == FillFrom(a, b, 0, Len(a.dims), default_to_one)
        b1 == FillFrom(b, a1, 0, Len(a.dims), default_to_one)
    IN [a |-> a1, b |-> b1]
AllKnown(t) == \A i \in 1..Len(t.dims) : t.dims[i].known

(* ------------------------ strides and Indexer ------------------------- *)
RECURSIVE ProdFromCountingFake(_, _)
\* (the product with the fake slots multiplied in)
ProdFromCountingFake(t, i) ==
    IF i > Len(t.dims) THEN 1 ELSE t.dims[i].n * ProdFromCountingFake(t, i + 1)

RECURSIVE ProdFrom(_, _)
\* the scan state of unordered_strides after storage slots Len..i: the product
\* of the non-fake sizes of slots i..Len (1-based i)
ProdFrom(t, i) ==
    IF i > Len(t.dims) THEN 1
    ELSE (IF t.fake[i] THEN 1 ELSE t.dims[i].n) * ProdFrom(t, i + 1)

\* unordered_strides(): the expect() fails on a non-fake Unknown dim
UnorderedStridesPanics(t) == \E i \in 1..Len(t.dims) : ~t.fake[i] /\ ~t.dims[i].known
\* (each stride taking in the size of its own slot)
UnorderedStridesInclusive(t) == [i \in 1..Len(t.dims) |-> ProdFrom(t, i)]
UnorderedStrides(t) == [i \in 1..Len(t.dims) |-> ProdFrom(t, i + 1)]

\* strides(): unordered strides reordered by indexes
StridesPanics(t) == UnorderedStridesPanics(t)
Strides(t) == [i \in 1..Len(t.indexes) |-> UnorderedStrides(t)[t.indexes[i] + 1]]

\* indexer(): to_usize().unwrap() fails on any Unknown dim that indexes names
IndexerPanics(t) ==
    UnorderedStridesPanics(t) \/ \E i \in 1..Len(t.indexes) : ~t.dims[t.indexes[i] + 1].known
Indexer(t) ==
    LET rev == Reverse(t.indexes)
    IN [j \in 1..Len(rev) |->
          LET k == rev[j] + 1
          IN [sh |-> t.dims[k].n, stride |-> UnorderedStrides(t)[k],
              padding |-> t.padding[k], slice |-> t.slices[k], fake |-> t.fake[k]]]

(* usize operations on representatives (negative = wrapped, "huge") *)
\* a / b for a small dividend a >= 0 and b # 0
UDiv(a, b) == IF b < 0 THEN 0 ELSE a \div b
\* a % b for a small dividend a >= 0 and b # 0
UMod(a, b) == IF b < 0 THEN a ELSE a % b

PanicR == [tag |-> "Panic", v |-> 0]
NoneR == [tag |-> "None", v |-> 0]
SomeR(x) == [tag |-> "Some", v |-> x]

\* "Over top or under bottom": the digit is outside the axis's valid range
IndexOutside(dim_ind, e) ==
    \/ dim_ind >= Min(e.sh + e.padding[1], e.slice[2])
    \/ dim_ind < SatSub(e.padding[1], e.slice[1])

\* Indexer::index from axis k of data on, in build profile b
RECURSIVE IndexLoop(_, _, _, _, _, _)
IndexLoop(data, k, logical, ret, acc, b) ==
    IF k > Len(data) THEN SomeR(ret)
    ELSE LET e == data[k]
             p0 == e.padding[1]
             p1 == e.padding[2]
             s0 == e.slice[1]
             s1 == e.slice[2]
             top == Min(e.sh + p0 + p1, s1)
             logical_sh == top - s0
         IN IF top < s0 /\ b = "debug" THEN PanicR
            ELSE IF e.fake THEN IndexLoop(data, k + 1, logical, ret, acc * logical_sh, b)
            ELSE IF acc = 0 \/ logical_sh = 0 THEN PanicR
            ELSE LET dim_ind == UMod(UDiv(logical, acc), logical_sh)
                 IN IF IndexOutside(dim_ind, e)
                    THEN NoneR
                    ELSE IF dim_ind < p0 /\ b = "debug" THEN PanicR
                    ELSE IndexLoop(data, k + 1, logical,
                                   ret + (dim_ind - p0 + SatSub(s0, p0)) * e.stride,
                                   acc * logical_sh, b)

IndexB(data, logical, b) == IndexLoop(data, 1, logical, 0, 1, b)
Index(data, logical) == IndexB(data, logical, build)

(* --------------------------- element counts --------------------------- *)
RECURSIVE NElementsFrom(_, _, _)
\* n_elements() over logical axes i.. (0-based): Unknown dims are filtered out
NElementsFrom(t, i, b) ==
    IF i >= Len(t.indexes) THEN [tag |-> "Some", v |-> 1]
    ELSE LET k == t.indexes[i + 1] + 1
             rest == NElementsFrom(t, i + 1, b)
         IN IF ~t.dims[k].known THEN rest
            ELSE LET top == Min(t.dims[k].n + t.padding[k][1] + t.padding[k][2], t.slices[k][2])
                 IN IF (top < t.slices[k][1] /\ b = "debug") \/ rest.tag = "Panic"
                    THEN PanicR
                    ELSE SomeR((top - t.slices[k][1]) * rest.v)
NElementsB(t, b) == NElementsFrom(t, 0, b)
NElements(t) == NElementsB(t, build)

RECURSIVE NPhysicalFrom(_, _)
NPhysicalFrom(t, i) ==
    IF i > Len(t.dims) THEN 1
    ELSE (IF ~t.fake[i] /\ t.dims[i].known THEN t.dims[i].n ELSE 1) * NPhysicalFrom(t, i + 1)
NPhysicalElements(t) == NPhysicalFrom(t, 1)

(* ------------------------ sum_reduce / max_reduce ---------------------- *)
RECURSIVE ReduceShape(_, _)
\* the shape sum_reduce / max_reduce give their result: remove_dim for each
\* reduced axis, from the highest to the lowest
ReduceShape(t, axes) ==
    IF axes = {} THEN t
    ELSE LET dim == CHOOSE a \in axes : \A c \in axes : c <= a
         IN ReduceShape(RemoveDim(t, dim), axes \ {dim})

(* ----------------------------- contiguous ------------------------------ *)
\* contiguous(): the size new() is given for storage slot k, in build profile
\* b: n.min(slices.1 - slices.0), the subtraction in usize
ContiguousSize(t, k, b) ==
    IF t.slices[k][2] < t.slices[k][1]
    THEN (IF b = "debug" THEN PanicR ELSE SomeR(t.dims[k].n))
    ELSE SomeR(Min(t.dims[k].n, t.slices[k][2] - t.slices[k][1]))
\* contiguous(): [tag, t], a new tracker over the dims in logical order
ContiguousB(t, b) ==
    IF \E i \in 1..Len(t.indexes) :
          t.dims[t.indexes[i] + 1].known /\ ContiguousSize(t, t.indexes[i] + 1, b).tag = "Panic"
    THEN [tag |-> "Panic", t |-> t]
    ELSE [tag |-> "Some",
          t |-> New([i \in 1..Len(t.indexes) |->
                       LET k == t.indexes[i] + 1
                       IN IF t.dims[k].known THEN Known(ContiguousSize(t, k, b).v)
                          ELSE t.dims[k]])]
Contiguous(t) == ContiguousB(t, build)

(* ----------------------- resolve_global_dyn_dims ----------------------- *)
\* resolve_global_dyn_dims(dyn_dim_map): [tag, t]; every Unknown(c) storage
\* dim, fake or not, becomes Known(dyn_dim_map[c]); indexing the map with a
\* missing key panics.  m is a function from a set of chars to sizes.
ResolveGlobalDynDims(t, m) ==
    IF \E k \in 1..Len(t.dims) : ~t.dims[k].known /\ t.dims[k].c \notin DOMAIN m
    THEN [tag |-> "Panic", t |-> t]
    ELSE [tag |-> "Some",
          t |-> [t EXCEPT !.dims = [k \in 1..Len(t.dims) |->
                                      IF t.dims[k].known THEN t.dims[k]
                                      ELSE Known(m[t.dims[k].c])]]]

(* ------------------- index_expression / valid_expression --------------- *)
(* The expressions are evaluated at idx := logical over the mathematical   *)
(* integers (the expression type holds BigInt literals), for trackers with *)
(* Known dims.  A quotient or remainder is taken to be defined for a       *)
(* positive divisor only; [ok |-> FALSE] is "not evaluable".               *)
EDefined(divisor) == divisor > 0
EDiv(a, b) == a \div b
EMod(a, b) == a % b
EUndef == [ok |-> FALSE, v |-> 0]
EVal(x) == [ok |-> TRUE, v |-> x]

\* the effective per-axis extent both expressions use for storage slot k
ExprLogicalSh(t, k) ==
    Min(t.dims[k].n + t.padding[k][1] + t.padding[k][2], t.slices[k][2]) - t.slices[k][1]

\* index_expression(): logical axes from the last to the first; j counts the
\* axes already folded into acc
RECURSIVE IndexExprLoop(_, _, _, _, _)
IndexExprLoop(t, j, logical, ret, acc) ==
    IF j >= Len(t.indexes) THEN EVal(ret)
    ELSE LET k == t.indexes[Len(t.indexes) - j] + 1
             logical_sh == ExprLogicalSh(t, k)
             p0 == t.padding[k][1]
             s0 == t.slices[k][1]
         IN IF t.fake[k] THEN IndexExprLoop(t, j + 1, logical, ret, acc * logical_sh)
            ELSE IF ~EDefined(acc) \/ ~EDefined(logical_sh) THEN EUndef
            ELSE LET dim_ind == EMod(EDiv(logical, acc), logical_sh)
                 IN IndexExprLoop(t, j + 1, logical,
                                  ret + (dim_ind - p0 + SatSub(s0, p0)) * ProdFrom(t, k + 1),
                                  acc * logical_sh)
IndexExpressionAt(t, logical) == IndexExprLoop(t, 0, logical, 0, 1)

\* valid_expression(): 1 when every non-fake digit is inside its valid range
RECURSIVE ValidExprLoop(_, _, _, _, _)
ValidExprLoop(t, j, logical, ret, acc) ==
    IF j >= Len(t.indexes) THEN EVal(IF ret THEN 1 ELSE 0)
    ELSE LET k == t.indexes[Len(t.indexes) - j] + 1
             logical_sh == ExprLogicalSh(t, k)
             p0 == t.padding[k][1]
             s0 == t.slices[k][1]
         IN IF t.fake[k] THEN ValidExprLoop(t, j + 1, logical, ret, acc * logical_sh)
            ELSE IF ~EDefined(acc) \/ ~EDefined(logical_sh) THEN EUndef
            ELSE LET dim_ind == EMod(EDiv(logical, acc), logical_sh)
                 IN ValidExprLoop(t, j + 1, logical,
                                  ret /\ dim_ind >= SatSub(p0, s0)
                                      /\ dim_ind < Min(t.dims[k].n + p0, t.slices[k][2]),
                                  acc * logical_sh)
ValidExpressionAt(t, logical) == ValidExprLoop(t, 0, logical, TRUE, 1)

(* ------------------------------ inputs -------------------------------- *)
KnownDims == {Known(n) : n \in 1..MaxDim}
DimVals == KnownDims \cup {DefaultDim}
\* a call that touches logical axis i alone: the neutral pair on the axes before it
OnAxis(i, neutral, b) == [j \in 1..(i + 1) |-> IF j = i + 1 THEN b ELSE neutral]
\* the factor logical axis i contributes to n_elements() in build profile b:
\* (dim + padding).min(slices.1) - slices.0 in usize for a Known dim (a panic
\* in a debug build when it underflows, the wrapped value otherwise); an
\* Unknown dim is filtered out of the product
EffSizeB(t, i, b) ==
    LET k == t.indexes[i + 1] + 1
        top == Min(t.dims[k].n + t.padding[k][1] + t.padding[k][2], t.slices[k][2])
    IN IF ~t.dims[k].known THEN SomeR(1)
       ELSE IF top < t.slices[k][1] /\ b = "debug" THEN PanicR
       ELSE SomeR(top - t.slices[k][1])
EffSize(t, i) == EffSizeB(t, i, build)
\* slice bounds a caller may pass for logical axis i: lower <= upper <= size,
\* or the "unset" upper bound; where the axis has no usable size (an Unknown
\* dim, a panic, a wrapped value) the bounds go up to MaxDim
SliceArgs(t, i) ==
    LET e == EffSize(t, i)
        n == IF t.dims[t.indexes[i + 1] + 1].known /\ e.tag = "Some" /\ e.v >= 0
             THEN e.v ELSE MaxDim
    IN {b \in (0..n) \X ((0..n) \cup {IMAX}) : b[1] <= b[2]} \ {<<0, IMAX>>}
PadArgs == {<<a, b>> : a \in 0..MaxPad, b \in 0..MaxPad} \ {<<0, 0>>}
\* the chars of the Unknown dims in use, and the dyn dim maps a caller may
\* pass: any subset of them as keys, sizes as values
DynChars == {"-"}
DynDimMaps == UNION {[S -> 1..MaxDim] : S \in SUBSET DynChars}

(* ------------------------------- Graph -------------------------------- *)
(* graph.nodes[i + 1] is the weight (operator, declared shape) of node     *)
(* index i, or Vacant once the node is removed; an operator is its name    *)
(* and, for a FusedUnary, its function list.  graph.edges is the set of    *)
(* edges [src, dst, w], w the input slot at dst.  graph.free is the        *)
(* graph's list of vacant indices, most recently freed first.              *)
Vacant == [name |-> "", shape |-> <<>>, fns |-> <<>>]
Node(name, shape) == [name |-> name, shape |-> shape, fns |-> <<>>]
Fused(fns, shape) == [name |-> "FusedUnary", shape |-> shape, fns |-> fns]

EmptyGraph ==
    [nodes |-> <<>>, edges |-> {}, free |-> <<>>,
     no_delete |-> {}, to_retrieve |-> {}, id_remap |-> {}]

Exists(G, n) == n \in 0..(Len(G.nodes) - 1) /\ G.nodes[n + 1] # Vacant
\* node_indices(): the occupied indices, ascending
NodeIndices(G) == {n \in 0..(Len(G.nodes) - 1) : G.nodes[n + 1] # Vacant}
OutEdges(G, n) == {e \in G.edges : e.src = n}
InEdges(G, n) == {e \in G.edges : e.dst = n}
\* get_dests(n): one entry per outgoing edge
GetDests(G, n) == OutEdges(G, n)
\* get_sources(n): one entry per incoming edge, in input-slot order
GetSources(G, n) == InEdges(G, n)
\* the last entry of get_sources, what pop() returns
LastSource(es) == CHOOSE e \in es : \A f \in es : f.w <= e.w

RECURSIVE SetToSeq(_)
\* ascending order
SetToSeq(S) ==
    IF S = {} THEN <<>>
    ELSE LET m == CHOOSE x \in S : \A y \in S : x <= y
         IN <<m>> \o SetToSeq(S \ {m})

\* StableGraph::add_node: reuse the most recently freed index, else append
AddNodeIndex(G) == IF G.free # <<>> THEN Head(G.free) ELSE Len(G.nodes)
AddNode(G, weight) ==
    IF G.free # <<>>
    THEN [G EXCEPT !.nodes[Head(G.free) + 1] = weight, !.free = Tail(G.free)]
    ELSE [G EXCEPT !.nodes = Append(G.nodes, weight)]
AddEdge(G, a, b, w) == [G EXCEPT !.edges = G.edges \cup {[src |-> a, dst |-> b, w |-> w]}]
\* StableGraph::remove_node: the node and every edge at it; nothing if vacant
RemoveNode(G, n) ==
    IF ~Exists(G, n) THEN G
    ELSE [G EXCEPT !.nodes[n + 1] = Vacant,
                   !.edges = {e \in G.edges : e.src # n /\ e.dst # n},
                   !.free = <<n>> \o G.free]

\* Graph::move_references(id_remap, no_delete, to_retrieve, src, trg)
MoveReferences(G, src, trg) ==
    [G EXCEPT
       !.id_remap = {<<r[1], IF r[2] = src THEN trg ELSE r[2]>> : r \in G.id_remap}
                       \cup {<<src, trg>>},
       !.no_delete = IF src \in G.no_delete
                     THEN (G.no_delete \ {src}) \cup {trg} ELSE G.no_delete,
       !.to_retrieve = IF src \in G.to_retrieve
                       THEN (G.to_retrieve \ {src}) \cup {trg} ELSE G.to_retrieve]

\* add_op(op, shape).input(a).input(b).finish()
AddOp2(G, weight, a, b) ==
    LET new == AddNodeIndex(G)
    IN AddEdge(AddEdge(AddNode(G, weight), a, new, 0), b, new, 1)

\* copies of the outgoing edges of `from`, leaving `to` instead
ReattachOut(G, from, to) ==
    [G EXCEPT !.edges = G.edges \cup
        {[src |-> to, dst |-> e.dst, w |-> e.w] : e \in OutEdges(G, from)}]

(* --------------------------- MatMulOptimizer -------------------------- *)
NameRank(G, n, name, rank) ==
    G.nodes[n + 1].name = name /\ Len(G.nodes[n + 1].shape) = rank
\* exactly one outgoing edge, to a node of this name and rank
OneDest(G, n, name, rank) ==
    /\ Cardinality(GetDests(G, n)) = 1
    /\ \A e \in GetDests(G, n) : NameRank(G, e.dst, name, rank)
TheDest(G, n) == (CHOOSE e \in GetDests(G, n) : TRUE).dst
\* the sources of mul other than expand_1
OtherSources(G, mul, expand_1) == {e \in GetSources(G, mul) : e.src # expand_1}

\* the structural part of the match at `node` (the checks before no_delete)
MMStructure(G, node) ==
    /\ Exists(G, node)
    /\ NameRank(G, node, "Permute", 2)
    /\ OneDest(G, node, "Expand", 3)
    /\ OneDest(G, TheDest(G, node), "Mul", 3)
    /\ LET expand_1 == TheDest(G, node)
           mul == TheDest(G, expand_1)
           srcs == OtherSources(G, mul, expand_1)
       IN /\ Cardinality(srcs) = 1
          /\ \A e \in srcs : NameRank(G, e.src, "Expand", 3)
          /\ OneDest(G, mul, "SumReduce", 2)

\* the five matched nodes
MMNodes(G, node) ==
    LET expand_1 == TheDest(G, node)
        mul == TheDest(G, expand_1)
    IN [permute |-> node, expand_1 |-> expand_1, mul |-> mul,
        expand_2 |-> (CHOOSE e \in OtherSources(G, mul, expand_1) : TRUE).src,
        sum_reduce |-> TheDest(G, mul)]

\* "One of these nodes is marked to not delete, we can't remove them"
MMNoDelete(G, m) ==
    \/ m.permute \in G.no_delete
    \/ m.expand_1 \in G.no_delete
    \/ m.expand_2 \in G.no_delete
    \/ m.mul \in G.no_delete

\* (the replacement with the two operands attached in the opposite order)
MMRewriteSwapped(G, m) ==
    LET in0 == LastSource(GetSources(G, m.expand_2)).src
        in1 == LastSource(GetSources(G, m.permute)).src
        new_op == AddNodeIndex(G)
        shape == <<G.nodes[in0 + 1].shape[1], G.nodes[in1 + 1].shape[2]>>
        G1 == AddOp2(G, Node("MatMul2D", shape), in1, in0)
        G2 == ReattachOut(G1, m.sum_reduce, new_op)
        G3 == MoveReferences(G2, m.sum_reduce, new_op)
    IN RemoveNode(RemoveNode(RemoveNode(RemoveNode(RemoveNode(G3,
           m.expand_1), m.expand_2), m.permute), m.mul), m.sum_reduce)

\* the replacement of a verified match by a MatMul2D node
MMRewrite(G, m) ==
    LET in0 == LastSource(GetSources(G, m.expand_2)).src
        in1 == LastSource(GetSources(G, m.permute)).src
        new_op == AddNodeIndex(G)
        shape == <<G.nodes[in0 + 1].shape[1], G.nodes[in1 + 1].shape[2]>>
        G1 == AddOp2(G, Node("MatMul2D", shape), in0, in1)
        G2 == ReattachOut(G1, m.sum_reduce, new_op)
        G3 == MoveReferences(G2, m.sum_reduce, new_op)
    IN RemoveNode(RemoveNode(RemoveNode(RemoveNode(RemoveNode(G3,
           m.expand_1), m.expand_2), m.permute), m.mul), m.sum_reduce)

\* one iteration of the loop of MatMulOptimizer::optimize
MatMulStep(G, node) ==
    IF ~MMStructure(G, node) THEN G
    ELSE IF MMNoDelete(G, MMNodes(G, node)) THEN G
    ELSE MMRewrite(G, MMNodes(G, node))

(* ------------------------- UnaryFusionOptimizer ----------------------- *)
UnaryOps == {"Exp2", "Log2", "Recip", "Sqrt", "Sin"}
\* is_unary: the scalar function of a recognized operator
IsUnary(op) == op.name \in UnaryOps
UnaryFn(op) ==
    CASE op.name = "Exp2" -> "exp2"
      [] op.name = "Log2" -> "log2"
      [] op.name = "Recip" -> "recip"
      [] op.name = "Sqrt" -> "sqrt"
      [] op.name = "Sin" -> "sin"
IsFused(op) == op.name = "FusedUnary"

\* the node is skipped before its successor is looked at
UnarySkips(G, id) == id \in G.no_delete \/ Cardinality(OutEdges(G, id)) # 1

\* whether id and its successor merge
UnaryReplaced(op, other) ==
    (IsUnary(op) \/ IsFused(op)) /\ (IsUnary(other) \/ IsFused(other))

\* (the lists joined in the opposite order)
UnaryMergedSuccessorFirst(op, other) ==
    (IF IsUnary(other) THEN <<UnaryFn(other)>> ELSE other.fns)
        \o (IF IsUnary(op) THEN <<UnaryFn(op)>> ELSE op.fns)

\* the merged function list, stored on the source node
UnaryMerged(op, other) ==
    IF IsUnary(op)
    THEN IF IsUnary(other) THEN <<UnaryFn(op), UnaryFn(other)>>
         ELSE <<UnaryFn(op)>> \o other.fns
    ELSE IF IsUnary(other) THEN Append(op.fns, UnaryFn(other))
         ELSE op.fns \o other.fns

\* "Remove other node"
UnaryRemove(G, id, outgoing_target) ==
    RemoveNode(MoveReferences(ReattachOut(G, outgoing_target, id), outgoing_target, id),
               outgoing_target)

\* one iteration of the loop of UnaryFusionOptimizer::optimize
UnaryStep(G, id) ==
    IF UnarySkips(G, id) THEN G
    ELSE LET outgoing_target == TheDest(G, id)
             op == G.nodes[id + 1]
             other == G.nodes[outgoing_target + 1]
         IN IF ~UnaryReplaced(op, other) THEN G
            ELSE UnaryRemove(
                   [G EXCEPT !.nodes[id + 1] = Fused(UnaryMerged(op, other), op.shape)],
                   id, outgoing_target)

(* ------------------------- tracker state machine ---------------------- *)
TypeOK ==
    /\ build \in Builds
    /\ err \in {"none", "panic"}
    /\ steps \in 0..MaxSteps

CanStep == err = "none" /\ steps < MaxSteps
Stepped == steps' = steps + 1 /\ UNCHANGED <<build, gvars, st2, call>>

ExpandWith(D) ==
    /\ CanStep
    /\ Len(st.dims) < MaxRank
    /\ Len(st.slices) < Capacity
    /\ \E axis \in 0..Rank(st), d \in D : st' = Expand(st, axis, d)
    /\ UNCHANGED err
    /\ Stepped

DoExpand == ExpandWith(DimVals)
DoExpandKnown == ExpandWith(KnownDims)

DoRemoveDim ==
    /\ CanStep
    /\ \E axis \in 0..(Rank(st) - 1) : st' = RemoveDim(st, axis)
    /\ UNCHANGED err
    /\ Stepped

DoPermute ==
    /\ CanStep
    /\ Rank(st) >= 1
    /\ \E axes \in Perms(Rank(st)) : st' = Permute(st, axes)
    /\ UNCHANGED err
    /\ Stepped

DoSlice ==
    /\ CanStep
    /\ \E i \in 0..(Rank(st) - 1) :
          \E b \in SliceArgs(st, i) : st' = Slice(st, OnAxis(i, <<0, IMAX>>, b))
    /\ UNCHANGED err
    /\ Stepped

DoPad ==
    /\ CanStep
    /\ \E i \in 0..(Rank(st) - 1), b \in PadArgs :
          LET r == Pad(st, OnAxis(i, <<0, 0>>, b))
          IN /\ st' = r.t
             /\ err' = IF r.ok THEN "none" ELSE "panic"
    /\ Stepped

DoRealize ==
    /\ CanStep
    /\ Rank(st) >= 1
    /\ \E ds \in SeqsOfLen(DimVals, Rank(st)) : st' = Realize(st, ds)
    /\ UNCHANGED err
    /\ Stepped

DoContiguous ==
    /\ CanStep
    /\ LET r == Contiguous(st)
       IN /\ st' = r.t
          /\ err' = IF r.tag = "Some" THEN "none" ELSE "panic"
    /\ Stepped

DoResolveGlobal ==
    /\ CanStep
    /\ \E m \in DynDimMaps :
          LET r == ResolveGlobalDynDims(st, m)
          IN /\ st' = r.t
             /\ err' = IF r.tag = "Some" THEN "none" ELSE "panic"
    /\ Stepped

NoGraph == graph = EmptyGraph /\ g0 = EmptyGraph /\ pc = "none" /\ queue = <<>>
\* no resolve_local_dyn_dims call in this specification
NoCall == [made |-> FALSE]
NoResolve == st2 = New(<<>>) /\ call = NoCall

\* a tracker as new(dims) or fake(dims) builds it, then any calls
Init ==
    /\ \E ds \in SeqsUpTo(DimVals, MaxRank) : st = New(ds) \/ st = FakeNew(ds)
    /\ err = "none"
    /\ build \in Builds
    /\ steps = 0
    /\ NoGraph
    /\ NoResolve

Next ==
    \/ DoExpand \/ DoRemoveDim \/ DoPermute \/ DoSlice \/ DoPad \/ DoRealize
    \/ DoContiguous \/ DoResolveGlobal

Spec == Init /\ [][Next]_vars

\* trackers with Known dims built from new(dims) by expand, permute, slice, pad
InitBuild ==
    /\ \E ds \in SeqsUpTo(KnownDims, MaxRank) : st = New(ds)
    /\ err = "none"
    /\ build \in Builds
    /\ steps = 0
    /\ NoGraph
    /\ NoResolve

NextBuild == DoExpandKnown \/ DoPermute \/ DoSlice \/ DoPad

SpecBuild == InitBuild /\ [][NextBuild]_vars

(* ------------------------ permute and strides -------------------------- *)
\* trackers with Known dims as new, fake, or new followed by one expand build
\* them, then any permute calls
InitPermute ==
    /\ \/ \E ds \in SeqsUpTo(KnownDims, MaxPermRank) : st = New(ds) \/ st = FakeNew(ds)
       \/ \E ds \in SeqsUpTo(KnownDims, MaxPermRank - 1), d \in KnownDims :
             \E axis \in 0..Len(ds) : st = Expand(New(ds), axis, d)
    /\ err = "none"
    /\ build = "debug"
    /\ steps = 0
    /\ NoGraph
    /\ NoResolve

NextPermute == DoPermute
SpecPermute == InitPermute /\ [][NextPermute]_vars

(* ------------------------- broadcast trackers -------------------------- *)
\* new(dims) with Known dims, then permute and expand (fake axes) calls
InitFake ==
    /\ \E ds \in SeqsUpTo(KnownDims, MaxRank) : st = New(ds)
    /\ err = "none"
    /\ build \in Builds
    /\ steps = 0
    /\ NoGraph
    /\ NoResolve

DoExpandFake ==
    /\ CanStep
    /\ Len(st.dims) < MaxPermRank
    /\ \E axis \in 0..Rank(st), d \in KnownDims : st' = Expand(st, axis, d)
    /\ UNCHANGED err
    /\ Stepped

NextFake == DoPermute \/ DoExpandFake
SpecFake == InitFake /\ [][NextFake]_vars

(* ----------------------- resolve_local_dyn_dims ------------------------ *)
\* dims of the two trackers: Known, the default Unknown('-'), a named Unknown
ResolveDims == DimVals \cup {Unknown("a")}
\* trackers of rank r: new(dims), permuted
ResolveTrackers(r) == {Permute(New(ds), p) : ds \in SeqsOfLen(ResolveDims, r), p \in Perms(r)}

InitResolve ==
    /\ \E r \in 0..MaxRank : st \in ResolveTrackers(r) /\ st2 \in ResolveTrackers(r)
    /\ call = NoCall
    /\ err = "none"
    /\ build = "debug"
    /\ steps = 0
    /\ NoGraph

DoResolve ==
    /\ ~call.made
    /\ \E default_to_one \in BOOLEAN :
          /\ st' = ResolveLocalDynDims(st, st2, default_to_one).a
          /\ st2' = ResolveLocalDynDims(st, st2, default_to_one).b
          /\ call' = [made |-> TRUE, a |-> st, b |-> st2, default_to_one |-> default_to_one]
    /\ UNCHANGED <<err, build, steps, gvars>>

NextResolve == DoResolve
SpecResolve == InitResolve /\ [][NextResolve]_vars

(* ------------------------ optimizer input graphs ---------------------- *)
(* Matmul graphs: a.matmul(b) as the builder lays it out,                  *)
(*   A -> Expand(E2) -> Mul <- Expand(E1) <- Permute(P) <- B, Mul -> SumReduce(S), *)
(* with one node optionally off-pattern (wrong name or rank), an optional  *)
(* further consumer X of one node, and cons consumers Y1.. of S.           *)
Layouts ==
    {<<"A", "B", "P", "E1", "E2", "Mul", "S">>, <<"B", "P", "E1", "A", "E2", "Mul", "S">>}
YNames == <<"Y1", "Y2", "Y3", "Y4">>
PatternLabels == {"P", "E1", "E2", "Mul", "S"}
MKNs == {<<2, 3, 4>>, <<3, 2, 2>>}

MMParams ==
    [layout : Layouts, mkn : MKNs,
     wrong : PatternLabels \cup {"none"}, wrongKind : {"name", "rank"},
     extra : PatternLabels \cup {"A", "none"},
     cons : 0..MaxConsumers,
     nd : {{}} \cup {{l} : l \in PatternLabels},
     tr : BOOLEAN]

MMLabels(p) ==
    p.layout \o (IF p.extra = "none" THEN <<>> ELSE <<"X">>) \o SubSeq(YNames, 1, p.cons)
IdOf(labels, l) == (CHOOSE i \in 1..Len(labels) : labels[i] = l) - 1

MMWeight(p, l) ==
    LET M == p.mkn[1]
        K == p.mkn[2]
        N == p.mkn[3]
        w == CASE l = "A" -> Node("Input", <<M, K>>)
               [] l = "B" -> Node("Input", <<K, N>>)
               [] l = "P" -> Node("Permute", <<N, K>>)
               [] l \in {"E1", "E2"} -> Node("Expand", <<M, N, K>>)
               [] l = "Mul" -> Node("Mul", <<M, N, K>>)
               [] l = "S" -> Node("SumReduce", <<M, N>>)
               [] OTHER -> Node("Other", <<M, N>>)
    IN IF l # p.wrong THEN w
       ELSE IF p.wrongKind = "name" THEN Node("Other", w.shape)
       ELSE Node(w.name, Append(w.shape, 1))

MMEdges(p) ==
    LET ls == MMLabels(p)
        E(a, b, w) == [src |-> IdOf(ls, a), dst |-> IdOf(ls, b), w |-> w]
    IN {E("A", "E2", 0), E("B", "P", 0), E("P", "E1", 0), E("E2", "Mul", 0),
        E("E1", "Mul", 1), E("Mul", "S", 0)}
       \cup (IF p.extra = "none" THEN {} ELSE {E(p.extra, "X", 0)})
       \cup UNION {IF i % 2 = 1 THEN {E("S", YNames[i], 0)}
                   ELSE {E("A", YNames[i], 0), E("S", YNames[i], 1)} : i \in 1..p.cons}

MMGraph(p) ==
    LET ls == MMLabels(p)
    IN [nodes |-> [i \in 1..Len(ls) |-> MMWeight(p, ls[i])],
        edges |-> MMEdges(p),
        free |-> <<>>,
        no_delete |-> {IdOf(ls, l) : l \in p.nd},
        to_retrieve |-> IF p.tr THEN {IdOf(ls, "S")} ELSE {},
        id_remap |-> {}]

(* Unary graphs: MaxNodes nodes, each an Input or a one-input node (a      *)
(* recognized unary operator, a FusedUnary or another operator) fed by     *)
(* another node; at most one node is marked (no_delete and to_retrieve).   *)
UnaryNames == <<"Exp2", "Log2", "Sqrt", "Recip", "Sin">>
\* the operator of node i when it is unary: Exp2, Log2, Sqrt, ... for 1, 2, 3, ...
UnaryNameOf(i) == UnaryNames[((i + 4) % 5) + 1]
NodeIds == 0..(MaxNodes - 1)
Descriptors == {<<"Input", -1>>} \cup ({"Unary", "Fused", "Other"} \X NodeIds)

RECURSIVE ReachesRoot(_, _, _)
ReachesRoot(d, i, k) ==
    IF d[i][2] = -1 THEN TRUE
    ELSE IF k = 0 THEN FALSE
    ELSE ReachesRoot(d, d[i][2], k - 1)

UnaryShapes == {d \in [NodeIds -> Descriptors] : \A i \in NodeIds : ReachesRoot(d, i, MaxNodes)}

UnaryWeight(d, i) ==
    CASE d[i][1] = "Input" -> Node("Input", <<2>>)
      [] d[i][1] = "Unary" -> Node(UnaryNameOf(i), <<2>>)
      [] d[i][1] = "Fused" ->
            Fused(<<UnaryFn(Node(UnaryNameOf(i), <<>>)),
                    UnaryFn(Node(UnaryNameOf(i + 1), <<>>))>>, <<2>>)
      [] OTHER -> Node("Other", <<2>>)

UnaryGraph(d, marked) ==
    [nodes |-> [i \in 1..MaxNodes |-> UnaryWeight(d, i - 1)],
     edges |-> {[src |-> d[i][2], dst |-> i, w |-> 0] : i \in {j \in NodeIds : d[j][2] # -1}},
     free |-> <<>>,
     no_delete |-> marked,
     to_retrieve |-> marked,
     id_remap |-> {}]

(* ----------------------- optimizer state machine ---------------------- *)
NoTracker == st = New(<<>>) /\ err = "none" /\ build = "debug" /\ steps = 0 /\ NoResolve

\* optimize() takes its snapshot of node_indices()
StartPass(G, which) ==
    /\ graph = G
    /\ g0 = G
    /\ pc = which
    /\ queue = SetToSeq(NodeIndices(G))

InitMatMul == \E p \in MMParams : StartPass(MMGraph(p), "MatMul")
InitUnary ==
    \E d \in UnaryShapes, marked \in {{}} \cup {{i} : i \in NodeIds} :
        StartPass(UnaryGraph(d, marked), "Unary")

MatMulVisit ==
    /\ pc = "MatMul"
    /\ queue # <<>>
    /\ graph' = MatMulStep(graph, Head(queue))
    /\ queue' = Tail(queue)
    /\ UNCHANGED <<g0, pc, tvars>>

UnaryVisit ==
    /\ pc = "Unary"
    /\ queue # <<>>
    /\ graph' = UnaryStep(graph, Head(queue))
    /\ queue' = Tail(queue)
    /\ UNCHANGED <<g0, pc, tvars>>

InitOpt == NoTracker /\ (InitMatMul \/ InitUnary)
NextOpt == MatMulVisit \/ UnaryVisit
SpecOpt == InitOpt /\ [][NextOpt]_vars

\* the pass has returned
PassDone(which) == pc = which /\ queue = <<>>

(* -------------------- passes on graphs with references ---------------- *)
\* what a caller may hold on a graph: nothing, or one of its nodes
Holds(G) == {{}} \cup {{n} : n \in NodeIndices(G)}
\* the graph with the nodes of held also in to_retrieve and each the target
\* of an id_remap entry, left by an earlier pass for a node id that is gone
WithRefs(G, held) ==
    [G EXCEPT !.to_retrieve = G.to_retrieve \cup held,
              !.id_remap = {<<Len(G.nodes) + 1, n>> : n \in held}]

InitMatMulRefs ==
    \E p \in MMParams : \E held \in Holds(MMGraph(p)) :
        StartPass(WithRefs(MMGraph(p), held), "MatMul")
InitUnaryRefs ==
    \E d \in UnaryShapes, marked \in {{}} \cup {{i} : i \in NodeIds} :
        \E held \in Holds(UnaryGraph(d, marked)) :
            StartPass(WithRefs(UnaryGraph(d, marked), held), "Unary")

InitRefs == NoTracker /\ (InitMatMulRefs \/ InitUnaryRefs)
SpecRefs == InitRefs /\ [][NextOpt]_vars

(* ======================= claims: ShapeTracker ========================= *)
\* a usize (representative rep) equals the mathematical integer m
UsizeIs(rep, m) == rep >= 0 /\ rep = m
\* the logical indices below n_elements() (all of 0..MaxIdx when it wrapped)
Below(n) == IF n < 0 THEN 0..MaxIdx ELSE 0..(n - 1)

\* C1: in every reachable tracker the five per-axis vectors have equal length
C1_EqualLengths ==
    /\ Len(st.dims) = Len(st.indexes)
    /\ Len(st.dims) = Len(st.fake)
    /\ Len(st.dims) = Len(st.slices)
    /\ Len(st.dims) = Len(st.padding)

\* C2: expand(axis, d) followed by remove_dim(axis) gives back the tracker,
\* for every axis position 0..rank and every Dim
C2_ExpandRemoveRestores ==
    (err = "none" /\ Len(st.slices) < Capacity) =>
        \A axis \in 0..Rank(st), d \in DimVals : RemoveDim(Expand(st, axis, d), axis) = st

\* C3: with all dims Known, Indexer::index(idx) is Some exactly when
\* valid_expression() is non-zero at idx, and then equals index_expression()
\* at idx (wherever the expressions can be evaluated)
C3_IndexerAgreesWithExpressions ==
    (err = "none" /\ AllKnown(st)) =>
        \A idx \in 0..MaxIdx :
            LET r == Index(Indexer(st), idx)
                v == ValidExpressionAt(st, idx)
                x == IndexExpressionAt(st, idx)
            IN v.ok => /\ (r.tag = "Some") <=> (v.v # 0)
                       /\ r.tag = "Some" => (x.ok /\ UsizeIs(r.v, x.v))

\* C4: with all dims Known, index(idx) is Some for every
\* 0 <= idx < n_elements()
C4_EveryIndexBelowNElementsIsSome ==
    (err = "none" /\ AllKnown(st) /\ NElements(st).tag = "Some") =>
        \A idx \in Below(NElements(st).v) : Index(Indexer(st), idx).tag = "Some"

\* no axis carries padding
Unpadded(t) == \A k \in 1..Len(t.dims) : t.padding[k] = <<0, 0>>

\* C5: slicing (lo, hi) of a padded axis leaves hi - lo logical elements and
\* the physical count unchanged; pad((2,2)) then slice((1,4)) on size 3 gives
\* n_elements() = 3 and n_physical_elements() = 3
C5_PadThenSliceSize ==
    /\ LET t == Slice(Pad(New(<<Known(3)>>), <<<<2, 2>>>>).t, <<<<1, 4>>>>)
       IN \A b \in Builds : NElementsB(t, b) = SomeR(3) /\ NPhysicalElements(t) = 3
    /\ (/\ err = "none" /\ Rank(st) = 1 /\ Len(st.dims) = 1 /\ AllKnown(st)
        /\ ~st.fake[1] /\ st.slices[1] = <<0, IMAX>> /\ st.padding[1] # <<0, 0>>)
       => \A lo, hi \in 0..(st.dims[1].n + st.padding[1][1] + st.padding[1][2]) :
             lo <= hi =>
                LET t == Slice(st, <<<<lo, hi>>>>)
                IN /\ NElements(t) = SomeR(hi - lo)
                   /\ NPhysicalElements(t) = st.dims[1].n

(* ========================= claims: optimizers ========================= *)
\* a -> b where a, b are recognized unary or fused nodes and the edge is a's only outgoing edge
Fusable(G, n) == Exists(G, n) /\ (IsUnary(G.nodes[n + 1]) \/ IsFused(G.nodes[n + 1]))
Link(G, a, b) ==
    /\ Fusable(G, a) /\ Fusable(G, b)
    /\ OutEdges(G, a) = {e \in G.edges : e.src = a /\ e.dst = b}
    /\ Cardinality(OutEdges(G, a)) = 1
RECURSIVE ChainFrom(_, _, _)
\* the chain of single-fanout links that starts at s (at most k nodes)
ChainFrom(G, s, k) ==
    IF k > 1 /\ \E b \in NodeIndices(G) : Link(G, s, b)
    THEN <<s>> \o ChainFrom(G, CHOOSE b \in NodeIndices(G) : Link(G, s, b), k - 1)
    ELSE <<s>>
\* the maximal chains of G of two or more nodes
MaximalChains(G) ==
    {c \in {ChainFrom(G, s, Len(G.nodes)) :
                s \in {n \in NodeIndices(G) :
                          Fusable(G, n) /\ ~\E a \in NodeIndices(G) : Link(G, a, n)}} :
        Len(c) >= 2}
Range(f) == {f[i] : i \in DOMAIN f}
ChainFns(G, c) == [i \in 1..Len(c) |-> UnaryFn(G.nodes[c[i] + 1])]

\* C6: one pass of UnaryFusionOptimizer turns every maximal chain of k >= 2
\* recognized unary nodes (single-fanout edges, no protected node) into exactly
\* one FusedUnary node that holds the k functions in chain order
C6_ChainCollapsesToOneNode ==
    PassDone("Unary") =>
        \A c \in MaximalChains(g0) :
            (/\ \A n \in Range(c) : IsUnary(g0.nodes[n + 1])
             /\ Range(c) \cap g0.no_delete = {})
            => /\ Cardinality({n \in Range(c) : Exists(graph, n)}) = 1
               /\ \A n \in Range(c) :
                     Exists(graph, n) => graph.nodes[n + 1].name = "FusedUnary"
                                         /\ graph.nodes[n + 1].fns = ChainFns(g0, c)

MatMulNodes(G) == {n \in NodeIndices(G) : G.nodes[n + 1].name = "MatMul2D"}
FiveOf(m) == {m.permute, m.expand_1, m.expand_2, m.mul, m.sum_reduce}
FiveKept(m) == \A n \in FiveOf(m) : Exists(graph, n) /\ graph.nodes[n + 1] = g0.nodes[n + 1]

\* C7: a matched pattern with any one of its five nodes in the
\* no-delete set is not rewritten
C7_AnyProtectedBlocksRewrite ==
    PassDone("MatMul") =>
        \A node \in NodeIndices(g0) :
            (MMStructure(g0, node) /\ FiveOf(MMNodes(g0, node)) \cap g0.no_delete # {})
            => FiveKept(MMNodes(g0, node)) /\ MatMulNodes(graph) = {}

\* C8: UnaryFusionOptimizer never removes a node that was in the
\* no-delete set when the pass started
C8_ProtectedNeverRemoved ==
    pc = "Unary" => \A n \in g0.no_delete : Exists(graph, n)

Fanout(G, n) == Cardinality(OutEdges(G, n))
\* C9: no fusion across a node with more than one outgoing edge: a matmul
\* pattern whose Permute, first Expand, second Expand or Mul has more than one
\* consumer is left as it is (same nodes, operators and edges), and a unary
\* node with several outgoing edges stays, with its operator and those edges
C9_NoFusionAcrossFanout ==
    /\ PassDone("MatMul") =>
         \A p \in NodeIndices(g0) : \A e1 \in OutEdges(g0, p) :
         \A em \in OutEdges(g0, e1.dst) : \A e2 \in InEdges(g0, em.dst) :
         \A es \in OutEdges(g0, em.dst) :
            (/\ NameRank(g0, p, "Permute", 2) /\ NameRank(g0, e1.dst, "Expand", 3)
             /\ NameRank(g0, em.dst, "Mul", 3) /\ NameRank(g0, e2.src, "Expand", 3)
             /\ e2.src # e1.dst /\ NameRank(g0, es.dst, "SumReduce", 2)
             /\ \E n \in {p, e1.dst, e2.src, em.dst} : Fanout(g0, n) > 1)
            => graph.nodes = g0.nodes /\ graph.edges = g0.edges
    /\ PassDone("Unary") =>
         \A n \in NodeIndices(g0) :
            (IsUnary(g0.nodes[n + 1]) /\ Fanout(g0, n) > 1)
            => /\ Exists(graph, n) /\ graph.nodes[n + 1] = g0.nodes[n + 1]
               /\ OutEdges(graph, n) = OutEdges(g0, n)

\* C10: a matched pattern with no node protected is replaced by exactly one
\* MatMul2D node with inputs (source of the second Expand, source of the
\* Permute) in that order, declared shape [A.rows, B.cols], and one outgoing
\* edge (same weight and target) per outgoing edge the SumReduce had; the five
\* matched nodes are gone
C10_MatMulRewrite ==
    PassDone("MatMul") =>
        \A node \in NodeIndices(g0) :
            (MMStructure(g0, node) /\ FiveOf(MMNodes(g0, node)) \cap g0.no_delete = {})
            => LET m == MMNodes(g0, node)
                   a == LastSource(InEdges(g0, m.expand_2)).src
                   b == LastSource(InEdges(g0, m.permute)).src
               IN /\ Cardinality(MatMulNodes(graph)) = 1
                  /\ \A new \in MatMulNodes(graph) :
                        /\ InEdges(graph, new) = {[src |-> a, dst |-> new, w |-> 0],
                                                  [src |-> b, dst |-> new, w |-> 1]}
                        /\ graph.nodes[new + 1].shape =
                              <<g0.nodes[a + 1].shape[1], g0.nodes[b + 1].shape[2]>>
                        /\ OutEdges(graph, new) =
                              {[src |-> new, dst |-> e.dst, w |-> e.w] :
                                   e \in OutEdges(g0, m.sum_reduce)}
                  /\ \A n \in FiveOf(m) : ~Exists(graph, n)

\* a rewritten graph whose SumReduce had two or more outgoing edges
C10_Witness ==
    /\ PassDone("MatMul")
    /\ g0.no_delete = {}
    /\ \E new \in MatMulNodes(graph) : Cardinality(OutEdges(graph, new)) >= 2
    /\ \E node \in NodeIndices(g0) : MMStructure(g0, node)

\* every edge joins two existing nodes; no_delete, to_retrieve and the targets
\* of id_remap name existing nodes
Consistent(G) ==
    /\ \A e \in G.edges : Exists(G, e.src) /\ Exists(G, e.dst)
    /\ \A n \in G.no_delete \cup G.to_retrieve : Exists(G, n)
    /\ \A r \in G.id_remap : Exists(G, r[2])

\* C11: when MatMulOptimizer or UnaryFusionOptimizer returns the graph is
\* structurally consistent: no edge at a removed node, and no_delete,
\* to_retrieve and the id_remap targets name nodes that exist
C11_ConsistentAfterPass ==
    (PassDone("MatMul") \/ PassDone("Unary")) => Consistent(graph)

(* =================== claims: ShapeTracker invariants ================== *)
\* s holds each of 0..n-1 exactly once
IsPermutation(s, n) ==
    /\ Len(s) = n
    /\ \A v \in 0..(n - 1) : Cardinality({i \in 1..Len(s) : s[i] = v}) = 1

\* C12: in every tracker reached from new/fake by expand, remove_dim and
\* permute (and the calls that leave indexes alone), indexes is a permutation
\* of 0..len(dims)
C12_IndexesIsPermutation == IsPermutation(st.indexes, Len(st.dims))

\* two calls made, the axes out of storage order
C12_Witness == steps = 2 /\ st.indexes = <<1, 0>> /\ Len(st.dims) = 2

SlicesOrdered(t) == \A k \in 1..Len(t.slices) : t.slices[k][1] <= t.slices[k][2]

\* C13: after any pad and slice calls on a tracker with Known dims, each slice
\* with lower <= upper <= the axis's current effective size, every axis has
\* slices.0 <= slices.1; in particular after slice((1,2)) then slice((1,1)) on
\* an axis of size 2
C13_SliceBoundsOrdered ==
    /\ SlicesOrdered(Slice(Slice(New(<<Known(2)>>), <<<<1, 2>>>>), <<<<1, 1>>>>))
    /\ (err = "none" /\ AllKnown(st)) => SlicesOrdered(st)

\* the slice upper bound of logical axis i (0-based) is set
FiniteUpper(t, i) == t.slices[t.indexes[i + 1] + 1][2] # IMAX
\* the argument lists of a pad() call on every axis of t
PadLists(t) == SeqsOfLen(PadArgs \cup {<<0, 0>>}, Rank(t))

\* C14: pad fails whenever it adds a non-zero amount, before or after, to an
\* axis whose slice upper bound is finite; no pad call puts new padding on
\* such an axis
C14_PadFailsOnAnySlicedAxis ==
    err = "none" =>
        \A bs \in PadLists(st) :
            (\E i \in 0..(Rank(st) - 1) : bs[i + 1] # <<0, 0>> /\ FiniteUpper(st, i))
            => ~Pad(st, bs).ok

(* ================= claims: Unknown dims and element counts ============ *)
SomeUnknown(t) == \E i \in 1..Len(t.dims) : ~t.dims[i].known
SomeRealUnknown(t) == \E i \in 1..Len(t.dims) : ~t.dims[i].known /\ ~t.fake[i]

\* C15: strides() and indexer() abort on every tracker with an
\* Unknown dim on any axis, fake or not, and return only when all dims are Known
C15_AbortOnAnyUnknown ==
    err = "none" => /\ StridesPanics(st) <=> SomeUnknown(st)
                    /\ IndexerPanics(st) <=> SomeUnknown(st)

RECURSIVE SeqProduct(_)
SeqProduct(s) == IF s = <<>> THEN 1 ELSE Head(s) * SeqProduct(Tail(s))
\* the padded-and-sliced size of each logical axis, the size of each non-fake dim
SlicedSizes(t) ==
    [i \in 1..Rank(t) |->
        LET k == t.indexes[i] + 1
        IN Min(t.dims[k].n + t.padding[k][1] + t.padding[k][2], t.slices[k][2])
               - t.slices[k][1]]
RealSizes(t) == [k \in 1..Len(t.dims) |-> IF t.fake[k] THEN 1 ELSE t.dims[k].n]

\* C16: n_elements() and n_physical_elements() do not abort on Unknown dims
\* and count an Unknown dim as size 0: n_elements() is 0 when some axis is
\* Unknown, n_physical_elements() is 0 when some non-fake axis is Unknown;
\* with all dims Known they are the products of the padded-and-sliced sizes
\* and of the non-fake sizes
C16_UnknownCountsAsZero ==
    (err = "none" /\ SlicesOrdered(st) /\ Len(st.slices) = Len(st.dims)) =>
        /\ NElements(st).tag = "Some"
        /\ SomeUnknown(st) => NElements(st).v = 0
        /\ SomeRealUnknown(st) => NPhysicalElements(st) = 0
        /\ AllKnown(st) => /\ NElements(st).v = SeqProduct(SlicedSizes(st))
                           /\ NPhysicalElements(st) = SeqProduct(RealSizes(st))

\* C17: with all dims Known, after expand, permute, pad and slice calls in any
\* order (slice bounds within the current effective size), Indexer::index
\* returns Some or None for every logical index and never fails: no usize
\* subtraction underflows and nothing is divided by zero; in particular after
\* slice((1,2)) then pad((1,0)) on an axis of size 2
C17_IndexNeverFails ==
    /\ \A b \in Builds :
          LET t == Pad(Slice(New(<<Known(2)>>), <<<<1, 2>>>>), <<<<1, 0>>>>).t
              r == IndexB(Indexer(t), 0, b)
          IN r.tag # "Panic" /\ r.v >= 0
    /\ (err = "none" /\ AllKnown(st)) =>
          \A idx \in 0..MaxIdx :
              LET r == Index(Indexer(st), idx)
              IN r.tag # "Panic" /\ r.v >= 0

(* ================== claims: resolve_local_dyn_dims ==================== *)
\* the dim at logical position i (0-based)
DimAt(t, i) == t.dims[t.indexes[i + 1] + 1]

\* C18: resolve_local_dyn_dims(a, b, default_to_one) on trackers of equal rank,
\* per logical position: one side unresolved and the other Known(n) gives
\* Known(n) on both; both unresolved stay unresolved without default_to_one
\* and become Known(1) with it; a Known dim is never changed
C18_ResolveLocalDynDims ==
    call.made =>
        \A i \in 0..(Rank(call.a) - 1) :
            LET x == DimAt(call.a, i)
                y == DimAt(call.b, i)
            IN /\ (IsDefaultDim(x) /\ y.known) => DimAt(st, i) = y /\ DimAt(st2, i) = y
               /\ (x.known /\ IsDefaultDim(y)) => DimAt(st, i) = x /\ DimAt(st2, i) = x
               /\ (IsDefaultDim(x) /\ IsDefaultDim(y)) =>
                     IF call.default_to_one
                     THEN DimAt(st, i) = Known(1) /\ DimAt(st2, i) = Known(1)
                     ELSE IsDefaultDim(DimAt(st, i)) /\ IsDefaultDim(DimAt(st2, i))
               /\ x.known => DimAt(st, i) = x
               /\ y.known => DimAt(st2, i) = y

\* a call on differently permuted rank-2 trackers that filled b from a at
\* one position and defaulted both at the other
C18_Witness ==
    /\ call.made /\ call.default_to_one
    /\ Rank(call.a) = 2 /\ call.a.indexes # call.b.indexes
    /\ \E i, j \in 0..1 :
          /\ DimAt(call.a, i) = Known(2) /\ IsDefaultDim(DimAt(call.b, i))
          /\ DimAt(st2, i) = Known(2)
          /\ IsDefaultDim(DimAt(call.a, j)) /\ IsDefaultDim(DimAt(call.b, j))
          /\ DimAt(st, j) = Known(1)

(* ====================== claims: permute and strides =================== *)
\* the axis list that undoes p
InversePerm(p) == [i \in 1..Len(p) |-> (CHOOSE j \in 1..Len(p) : p[j] = i - 1) - 1]

\* C19: with all dims Known, permute(p) followed by permute(inverse of p)
\* restores shape(), strides() and indexes, for every permutation p, also on
\* a tracker that is already permuted or has fake axes
C19_PermuteInverseRestores ==
    \A p \in Perms(Rank(st)) :
        LET t == Permute(Permute(st, p), InversePerm(p))
        IN /\ Shape(t) = Shape(st)
           /\ Strides(t) = Strides(st)
           /\ t.indexes = st.indexes

\* a permuted rank-3 tracker with a fake axis, and a permutation that is not
\* its own inverse and changes the shape and the strides
C19_Witness ==
    /\ steps >= 1 /\ Rank(st) = 3 /\ ~IsContiguous(st)
    /\ \E k \in 1..3 : st.fake[k]
    /\ \E p \in Perms(3) :
          /\ InversePerm(p) # p
          /\ Shape(Permute(st, p)) # Shape(st)
          /\ Strides(Permute(st, p)) # Strides(st)

\* the sizes of a list of Known dims
Sizes(ds) == [i \in 1..Len(ds) |-> ds[i].n]

\* C20: a tracker as new(dims) builds it from Known dims is contiguous and its
\* strides are row-major: strides()[i] is the product of dims[j], j > i, the
\* last stride 1
C20_NewIsContiguousRowMajor ==
    (st = New(st.dims) /\ AllKnown(st)) =>
        /\ IsContiguous(st)
        /\ ~StridesPanics(st)
        /\ Len(Strides(st)) = Len(st.dims)
        /\ \A i \in 1..Len(st.dims) :
              Strides(st)[i] = SeqProduct(SubSeq(Sizes(st.dims), i + 1, Len(st.dims)))

\* new(dims) of rank 3 with strides that differ
C20_Witness ==
    /\ steps = 0 /\ Rank(st) = 3 /\ st = New(st.dims) /\ AllKnown(st)
    /\ Strides(st) = <<4, 2, 1>>

(* ========================= claims: contiguous ========================= *)
\* C21: contiguous() returns an identity tracker (contiguous, no fake axis,
\* default slices and padding) whose size on each logical axis is that axis's
\* effective slice-bounded size min(size, upper) - lower, for every tracker
\* with Known dims and any slice bounds; for an unpadded tracker its
\* n_elements() equals the tracker's n_elements()
C21_ContiguousHasEffectiveSizes ==
    (err = "none" /\ AllKnown(st)) =>
        LET r == Contiguous(st)
        IN /\ r.tag = "Some"
           /\ r.t = New(r.t.dims)
           /\ IsContiguous(r.t)
           /\ Len(r.t.dims) = Rank(st)
           /\ \A i \in 1..Rank(st) :
                 LET k == st.indexes[i] + 1
                 IN r.t.dims[i] = Known(Min(st.dims[k].n, st.slices[k][2]) - st.slices[k][1])
           /\ Unpadded(st) => NElements(r.t) = NElements(st)

(* ========================= claims: remove_dim ========================= *)
\* what logical axis i (0-based) of t is: its size, fake flag, slice, padding
AxisView(t, i) ==
    LET k == t.indexes[i + 1] + 1
    IN [dim |-> t.dims[k], fake |-> t.fake[k], slice |-> t.slices[k], padding |-> t.padding[k]]
AxisViews(t) == [i \in 1..Rank(t) |-> AxisView(t, i - 1)]
RECURSIVE WithoutAxes(_, _)
\* the sequence s without the (0-based) positions in axes
WithoutAxes(s, axes) ==
    IF axes = {} THEN s
    ELSE LET a == CHOOSE x \in axes : \A c \in axes : c <= x
         IN WithoutAxes(RemoveAt(s, a), axes \ {a})

\* C22: remove_dim(axis), and so sum_reduce / max_reduce over any set of axes,
\* deletes only the named logical axes: the remaining axes keep their order
\* and each its size, fake flag, slice bounds and padding
C22_RemoveDimKeepsOtherAxes ==
    (err = "none" /\ C1_EqualLengths) =>
        /\ \A axis \in 0..(Rank(st) - 1) :
              AxisViews(RemoveDim(st, axis)) = RemoveAt(AxisViews(st), axis)
        /\ \A axes \in SUBSET (0..(Rank(st) - 1)) :
              AxisViews(ReduceShape(st, axes)) = WithoutAxes(AxisViews(st), axes)

(* ===================== claims: unary fusion steps ===================== *)
\* the functions a unary or fused node applies, in order
FnsOf(op) == IF IsUnary(op) THEN <<UnaryFn(op)>> ELSE op.fns

\* what a merge of `id` with its successor `succ` does to graph G, giving H
MergeKeepsOrder(G, H, id, succ) ==
    /\ H.nodes[id + 1].name = "FusedUnary"
    /\ H.nodes[id + 1].fns = FnsOf(G.nodes[id + 1]) \o FnsOf(G.nodes[succ + 1])
    /\ OutEdges(H, id) = {[src |-> id, dst |-> e.dst, w |-> e.w] : e \in OutEdges(G, succ)}
    /\ NodeIndices(H) = NodeIndices(G) \ {succ}
    /\ \A n \in NodeIndices(H) \ {id} : H.nodes[n + 1] = G.nodes[n + 1]
    /\ InEdges(H, id) = InEdges(G, id)

\* C23: every merge step of UnaryFusionOptimizer stores on the source node the
\* source's functions followed by the successor's, gives the source one
\* outgoing edge per former outgoing edge of the successor (same weight and
\* target), and deletes the successor node only
C23_MergeKeepsApplicationOrder ==
    [][(UnaryVisit /\ graph' # graph) =>
          MergeKeepsOrder(graph, graph', Head(queue), TheDest(graph, Head(queue)))]_vars

\* a source that has absorbed a fused successor, or a fused source a successor
C23_Witness ==
    /\ pc = "Unary"
    /\ \E n \in NodeIndices(graph) :
          /\ IsFused(graph.nodes[n + 1]) /\ Len(graph.nodes[n + 1].fns) >= 3
          /\ graph.nodes[n + 1] # g0.nodes[n + 1]
          /\ \E e \in OutEdges(graph, n) : e \notin g0.edges

(* ===================== claims: physical indices ======================= *)
\* C24: with all dims Known, after expand, permute, pad and slice calls in any
\* order, every physical index that Indexer::index returns is inside the
\* buffer: index(logical) = Some(p) implies p < n_physical_elements()
C24_IndexInsideBuffer ==
    (err = "none" /\ AllKnown(st)) =>
        \A idx \in 0..MaxIdx :
            LET r == Index(Indexer(st), idx)
            IN r.tag = "Some" => (r.v >= 0 /\ r.v < NPhysicalElements(st))

\* the size of logical axis i (1-based) of a tracker without slices or padding
LogicalSize(t, i) == t.dims[t.indexes[i] + 1].n
RECURSIVE SizeAfter(_, _)
\* the number of logical indices per step of logical axis i: the product of
\* the sizes of the axes after it
SizeAfter(t, i) == IF i >= Rank(t) THEN 1 ELSE LogicalSize(t, i + 1) * SizeAfter(t, i + 1)
\* the coordinates of logical index idx on the non-fake axes (0 on the fake ones)
RealCoords(t, idx) ==
    [i \in 1..Rank(t) |->
        IF t.fake[t.indexes[i] + 1] THEN 0
        ELSE (idx \div SizeAfter(t, i)) % LogicalSize(t, i)]
NoFake(t) == \A k \in 1..Len(t.fake) : ~t.fake[k]

\* C25: on new(dims) (Known dims >= 1) followed by permute calls,
\* Indexer::index on 0 <= idx < n_elements() is a bijection onto
\* 0..n_physical_elements(); with fake axes added by expand it is still onto
\* that range, and two logical indices get the same physical index exactly
\* when they differ in fake-axis coordinates only
C25_IndexIsBijectionUpToFakeAxes ==
    LET n == NElements(st).v
        f == [idx \in 0..(n - 1) |-> Index(Indexer(st), idx)]
    IN /\ NElements(st).tag = "Some"
       /\ \A idx \in DOMAIN f : f[idx].tag = "Some"
       /\ {f[idx].v : idx \in DOMAIN f} = 0..(NPhysicalElements(st) - 1)
       /\ \A i, j \in DOMAIN f :
             (f[i].v = f[j].v) <=> (RealCoords(st, i) = RealCoords(st, j))
       /\ NoFake(st) => /\ n = NPhysicalElements(st)
                        /\ \A i, j \in DOMAIN f : i # j => f[i].v # f[j].v

\* a permuted tracker with a fake axis between real ones, where two logical
\* indices share a physical index
C25_Witness ==
    /\ steps = 2 /\ Rank(st) = 3 /\ ~IsContiguous(st)
    /\ ~NoFake(st) /\ NPhysicalElements(st) >= 2
    /\ LogicalSize(st, 3) = 2
    /\ \E i, j \in 0..(NElements(st).v - 1) :
          i # j /\ Index(Indexer(st), i) = Index(Indexer(st), j)
    /\ \E i \in 0..(NElements(st).v - 1) : Index(Indexer(st), i).v # i

====
